---------------------------- MODULE Spec2Model ----------------------------
(***************************************************************************)
(* A model of the Columbus City Council extraction workflow                *)
(* (src/Columbus-OH/extract_columbus.py, class ColumbusExtractionWorkflow) *)
(* and of the properties its specification states about it.                *)
(*                                                                         *)
(* Conventions.  A Python dict is a TLA+ function whose DOMAIN is the set  *)
(* of keys.  A JSON value that may be null is a sequence of length at most *)
(* one: <<>> is None and <<v>> is the value v.  A Python str is a TLA+     *)
(* string, except where the code slices or re-reads it (dates, the full    *)
(* text): there it is a sequence of one-character strings.                 *)
(***************************************************************************)
EXTENDS Integers, Sequences, FiniteSets, TLC

VARIABLES
    pc,            \* position of the run / of the call under study
    item,          \* _assign_votes: the item argument
    members_list,  \* _assign_votes: the members_list argument
    votes,         \* _assign_votes: the returned dict
    q1_row,        \* extract_q1_2023.main: the member columns of the row it writes
    year,          \* __init__: self.year
    quarter,       \* __init__: self.quarter
    start_date,    \* __init__: self.start_date
    end_date,      \* __init__: self.end_date
    api,           \* what the Legistar API answers (the environment)
    request_log,   \* the requests and the _assign_votes calls of the run, in order
    all_items,     \* the list collect_event_items returns
    matter_cache,  \* self.matter_cache
    enrich_todo,   \* enrich_matter_data: matter ids the fetch loop has yet to visit
    enrich_calls,  \* how many times enrich_matter_data has been entered
    skip_text,     \* self.skip_text
    votes_only,    \* self.votes_only
    meetings_todo, \* collect_event_items: meetings the loop has yet to visit
    meeting_links, \* self.meeting_links
    all_members,   \* self.all_members
    attendance_by_meeting,  \* self.attendance_by_meeting
    voted_todo,    \* collect_event_items: voted items the third pass has yet to visit
    files,         \* the output directory: the three CSV files
    runs           \* how many runs of the program have started

assignVars == <<item, members_list, votes, q1_row>>
quarterVars == <<year, quarter, start_date, end_date>>
enrichVars == <<request_log, all_items, matter_cache, enrich_todo, enrich_calls>>
configVars == <<skip_text, votes_only>>
collectVars == <<meetings_todo, meeting_links, all_members, attendance_by_meeting, voted_todo>>
runVars == <<configVars, collectVars, files, runs>>
vars == <<pc, api, assignVars, quarterVars, enrichVars, runVars>>

(***************************************************************************)
(* Python values                                                           *)
(***************************************************************************)
None == <<>>
Some(v) == <<v>>
EmptyDict == <<>>
Unset == "<unset>"

\* dict.get(key, default)
DictGet(d, key, default) ==
    IF key \in DOMAIN d THEN d[key] ELSE default

\* d[key] = value
DictSet(d, key, value) ==
    [k \in (DOMAIN d) \cup {key} |-> IF k = key THEN value ELSE d[k]]

\* every dict with keys in K and values in V
Dicts(K, V) ==
    UNION {[S -> V] : S \in SUBSET K}

Min(a, b) == IF a <= b THEN a ELSE b

(***************************************************************************)
(* Council members.  Python compares names as strings; NameOrder lists the *)
(* names of the model in that order.                                       *)
(***************************************************************************)
NumMembers == 2

NameOrder == <<"Adams", "Brown", "Clark", "Davis">>

Names == {NameOrder[i] : i \in 1..Min(NumMembers, Len(NameOrder))}

Rank(name) == CHOOSE i \in 1..Len(NameOrder) : NameOrder[i] = name

\* sorted(list(S)) for a set S of names
RECURSIVE sorted(_)
sorted(S) ==
    IF S = {} THEN <<>>
    ELSE LET first == CHOOSE n \in S : \A m \in S : Rank(n) <= Rank(m)
         IN  <<first>> \o sorted(S \ {first})

Range(s) == {s[i] : i \in 1..Len(s)}

(***************************************************************************)
(* Vote assignment: VOTE_MAP and _assign_votes                             *)
(***************************************************************************)
VOTE_MAP ==
    [v \in {"Affirmative", "Negative", "Abstained", "Absent@vote", "Absent", "Present"} |->
        CASE v = "Affirmative" -> "Yes"
          [] v = "Negative"    -> "No"
          [] v = "Abstained"   -> "Abstain"
          [] v = "Absent@vote" -> "Absent"
          [] v = "Absent"      -> "Absent"
          [] v = "Present"     -> "Present"]

\* item.get('item_votes', {})   (line 458)
ItemVotes(it) == DictGet(it, "item_votes", EmptyDict)

\* the loop body of the first branch (lines 462-469)
RecordedVoteMutant(it, member) ==
    IF member \in DOMAIN ItemVotes(it)
    THEN ItemVotes(it)[member]
    ELSE IF DictGet(it.attendance, member, "") \in {"Absent", "Absent@vote"}
         THEN "Absent"
         ELSE ""

RecordedVote(it, member) ==
    IF member \in DOMAIN ItemVotes(it)
    THEN DictGet(VOTE_MAP, ItemVotes(it)[member], ItemVotes(it)[member])
    ELSE IF DictGet(it.attendance, member, "") \in {"Absent", "Absent@vote"}
         THEN "Absent"
         ELSE ""

\* the loop body of the consent/voice branch (lines 473-477)
ConsentVoteMutant(it, member) ==
    IF DictGet(it.attendance, member, "") = "Absent"
    THEN "Absent"
    ELSE "Yes"

ConsentVote(it, member) ==
    IF DictGet(it.attendance, member, "") \in {"Absent", "Absent@vote"}
    THEN "Absent"
    ELSE "Yes"

\* the loop body of the last branch (line 480)
BlankVoteMutant(it, member) ==
    IF DictGet(it.attendance, member, "") \in {"Absent", "Absent@vote"}
    THEN "Absent"
    ELSE ""

BlankVote(it, member) == ""

\* which of the three branches an item takes (lines 459, 470, 478)
BranchMutant(it) ==
    IF it.passed = Some(1) THEN "consent"
    ELSE IF DOMAIN ItemVotes(it) # {} THEN "recorded"
    ELSE "blank"

Branch(it) ==
    IF DOMAIN ItemVotes(it) # {} THEN "recorded"
    ELSE IF it.passed = Some(1) THEN "consent"
    ELSE "blank"

MemberVote(it, member) ==
    CASE Branch(it) = "recorded" -> RecordedVote(it, member)
      [] Branch(it) = "consent"  -> ConsentVote(it, member)
      [] OTHER                   -> BlankVote(it, member)

\* "for member in members_list: votes[member] = ..." from the dict acc
RECURSIVE AssignLoop(_, _, _)
AssignLoop(it, members, acc) ==
    IF members = <<>> THEN acc
    ELSE AssignLoop(it, Tail(members),
                    DictSet(acc, Head(members), MemberVote(it, Head(members))))

\* a loop that only visits the members the item knows about
AssignVotesMutant(it, members) ==
    AssignLoop(it,
               SelectSeq(members,
                         LAMBDA m : m \in DOMAIN ItemVotes(it) \cup DOMAIN it.attendance),
               EmptyDict)

_assign_votes(it, members) ==
    AssignLoop(it, members, EmptyDict)

(***************************************************************************)
(* The inputs of _assign_votes                                             *)
(***************************************************************************)
VoteValueNames ==
    {"Affirmative", "Negative", "Abstained", "Absent@vote", "Absent", "Present", "Recused"}

RollCallValueNames == {"Present", "Absent", "Absent@vote", "Excused"}

PassedFlags == {None, Some(0), Some(1)}

AssignItems ==
    [item_votes : Dicts(Names, VoteValueNames),
     attendance : Dicts(Names, RollCallValueNames),
     passed     : PassedFlags]

MemberLists == {sorted(S) : S \in SUBSET Names}

IdleItem == [item_votes |-> EmptyDict, attendance |-> EmptyDict, passed |-> None]

AssignIdle ==
    /\ item = IdleItem
    /\ members_list = <<>>
    /\ votes = Unset
    /\ q1_row = Unset

QuarterIdle ==
    /\ year = 0
    /\ quarter = 0
    /\ start_date = <<>>
    /\ end_date = <<>>

EnrichIdle ==
    /\ request_log = <<>>
    /\ all_items = <<>>
    /\ matter_cache = EmptyDict
    /\ enrich_todo = <<>>
    /\ enrich_calls = 0

NoFiles == [votes |-> None, voted_items |-> None, persons |-> None]

\* the runtime state __init__ sets up (lines 95-99)
CollectIdle ==
    /\ meetings_todo = <<>>
    /\ meeting_links = EmptyDict
    /\ all_members = {}
    /\ attendance_by_meeting = EmptyDict
    /\ voted_todo = <<>>

RunIdle ==
    /\ api = EmptyDict
    /\ skip_text = FALSE
    /\ votes_only = FALSE
    /\ CollectIdle
    /\ files = NoFiles
    /\ runs = 0

InitAssign ==
    /\ pc = "assign_call"
    /\ item \in AssignItems
    /\ members_list \in MemberLists
    /\ votes = Unset
    /\ q1_row = Unset
    /\ QuarterIdle
    /\ EnrichIdle
    /\ RunIdle

\* row.update(self._assign_votes(item, members_list))   (line 532)
AssignVotes ==
    /\ pc = "assign_call"
    /\ votes' = _assign_votes(item, members_list)
    /\ pc' = "assign_return"
    /\ UNCHANGED <<api, item, members_list, q1_row, quarterVars, enrichVars, runVars>>

NextAssign == AssignVotes

SpecAssign == InitAssign /\ [][NextAssign]_vars

(***************************************************************************)
(* The hard-coded single-quarter variant, extract_q1_2023.py: the member   *)
(* columns main writes for an item (lines 376-398).  Its items carry no    *)
(* per-item votes.  Both variants are run on the same item.                *)
(***************************************************************************)
\* the variant leaving the member blank when the status is unknown
Q1MemberVoteMutant(it, member) ==
    IF it.passed = Some(1)
    THEN LET attendance_status == DictGet(it.attendance, member, "")
         IN  IF attendance_status = "Present" THEN "Yes"
             ELSE IF attendance_status \in {"Absent", "Absent@vote"} THEN "Absent"
             ELSE ""
    ELSE ""

\* row[member] of lines 380-396
Q1MemberVote(it, member) ==
    IF it.passed = Some(1)
    THEN LET attendance_status == DictGet(it.attendance, member, "")
         IN  IF attendance_status = "Present" THEN "Yes"
             ELSE IF attendance_status \in {"Absent", "Absent@vote"} THEN "Absent"
             ELSE "Yes"
    ELSE IF it.passed = Some(0) THEN ""
    ELSE ""

\* "for member in members_list: row[member] = ..." from the dict acc
RECURSIVE Q1RowLoop(_, _, _)
Q1RowLoop(it, members, acc) ==
    IF members = <<>> THEN acc
    ELSE Q1RowLoop(it, Tail(members),
                   DictSet(acc, Head(members), Q1MemberVote(it, Head(members))))

\* the items of the variant: no per-item votes
Q1Items == {it \in AssignItems : it.item_votes = EmptyDict}

InitVariants ==
    /\ pc = "assign_call"
    /\ item \in Q1Items
    /\ members_list \in MemberLists
    /\ votes = Unset
    /\ q1_row = Unset
    /\ QuarterIdle
    /\ EnrichIdle
    /\ RunIdle

\* extract_q1_2023.main, lines 375-398, on the item _assign_votes was given
Q1WriteRow ==
    /\ pc = "assign_return"
    /\ q1_row' = Q1RowLoop(item, members_list, EmptyDict)
    /\ pc' = "q1_return"
    /\ UNCHANGED <<api, item, members_list, votes, quarterVars, enrichVars, runVars>>

NextVariants == AssignVotes \/ Q1WriteRow

SpecVariants == InitVariants /\ [][NextVariants]_vars

\* C16: for an item without recorded per-item votes, whatever its passed flag
\* (1, 0, absent) and whatever each member's attendance status (Present,
\* Absent, Absent@vote, another status, none), the member columns the
\* single-quarter variant writes are the values _assign_votes returns.
C16_VariantsAgree == pc = "q1_return" => q1_row = votes

C16_Witness ==
    /\ pc = "q1_return"
    /\ item.passed = Some(1)
    /\ \E m \in Range(members_list) :
          DictGet(item.attendance, m, "") = "Excused" /\ q1_row[m] = "Yes" /\ votes[m] = "Yes"
    /\ \E m \in Range(members_list) :
          m \notin DOMAIN item.attendance /\ q1_row[m] = "Yes" /\ votes[m] = "Yes"

(***************************************************************************)
(* The claims about _assign_votes, checked under SpecAssign                *)
(***************************************************************************)
Returned == pc = "assign_return"

IsAbsent(att) == att \in {"Absent", "Absent@vote"}

\* the vocabulary of section 4.5, unknown values passed through
Translate(v) ==
    CASE v = "Affirmative" -> "Yes"
      [] v = "Negative"    -> "No"
      [] v = "Abstained"   -> "Abstain"
      [] v = "Absent"      -> "Absent"
      [] v = "Absent@vote" -> "Absent"
      [] v = "Present"     -> "Present"
      [] OTHER             -> v

\* C1: the keys of the mapping _assign_votes returns are exactly the members
\* of the canonical list, whichever branch is taken and whatever item_votes
\* and attendance hold.
C1_KeysAreMembers ==
    Returned => DOMAIN votes = Range(members_list)

C1_Witness ==
    /\ Returned
    /\ DOMAIN item.item_votes # {}
    /\ \E m \in Range(members_list) :
          m \notin DOMAIN item.item_votes \cup DOMAIN item.attendance
    /\ \E m \in DOMAIN item.attendance : m \notin Range(members_list)

\* C2: with a non-empty per-item vote mapping, a member that is a key of it
\* gets the translated recorded value, whatever the attendance and the passed
\* flag are.
C2_RecordedValueTranslated ==
    (Returned /\ DOMAIN item.item_votes # {}) =>
        \A m \in DOMAIN item.item_votes \cap Range(members_list) :
            votes[m] = Translate(item.item_votes[m])

C2_Witness ==
    /\ Returned
    /\ item.passed = Some(0)
    /\ \E m \in DOMAIN item.item_votes \cap Range(members_list) :
          /\ item.item_votes[m] = "Affirmative"
          /\ DictGet(item.attendance, m, "") = "Absent"
          /\ votes[m] = "Yes"
    /\ \E m \in DOMAIN item.item_votes \cap Range(members_list) :
          /\ item.item_votes[m] = "Recused"
          /\ votes[m] = "Recused"

\* C3: with no per-item votes and passed = 1, every member of the list gets
\* "Absent" when the attendance status is Absent or Absent@vote and "Yes" in
\* every other case, a missing attendance entry included.
C3_ConsentFromAttendance ==
    (Returned /\ DOMAIN item.item_votes = {} /\ item.passed = Some(1)) =>
        \A m \in Range(members_list) :
            votes[m] = IF IsAbsent(DictGet(item.attendance, m, ""))
                       THEN "Absent" ELSE "Yes"

C3_Witness ==
    /\ Returned
    /\ DOMAIN item.item_votes = {}
    /\ item.passed = Some(1)
    /\ \E m \in Range(members_list) :
          /\ DictGet(item.attendance, m, "") = "Absent@vote"
          /\ votes[m] = "Absent"
    /\ \E m \in Range(members_list) :
          /\ m \notin DOMAIN item.attendance
          /\ votes[m] = "Yes"

\* C4: with a non-empty per-item vote mapping, a member of the list that is
\* not a key of it gets "Absent" when the attendance status is Absent or
\* Absent@vote and the empty string otherwise, never "Yes", even when the
\* item passed.
C4_UnlistedFallsBackToAttendance ==
    (Returned /\ DOMAIN item.item_votes # {}) =>
        \A m \in Range(members_list) \ DOMAIN item.item_votes :
            votes[m] = IF IsAbsent(DictGet(item.attendance, m, ""))
                       THEN "Absent" ELSE ""

C4_Witness ==
    /\ Returned
    /\ DOMAIN item.item_votes # {}
    /\ item.passed = Some(1)
    /\ \E m \in Range(members_list) \ DOMAIN item.item_votes :
          /\ DictGet(item.attendance, m, "") = "Present"
          /\ votes[m] = ""

\* C5: with no per-item votes and a passed flag that is 0 or absent, every
\* member's vote is the empty string, whatever the attendance says.
C5_NoOutcomeAllBlank ==
    (Returned /\ DOMAIN item.item_votes = {} /\ item.passed # Some(1)) =>
        \A m \in Range(members_list) : votes[m] = ""

C5_Witness ==
    /\ Returned
    /\ DOMAIN item.item_votes = {}
    /\ item.passed = Some(0)
    /\ \E m \in Range(members_list) :
          /\ DictGet(item.attendance, m, "") = "Absent"
          /\ votes[m] = ""

(***************************************************************************)
(* Date-range resolver: get_quarter_dates, called by __init__ (line 86)    *)
(***************************************************************************)
FirstYear == 2010
LastYear == 2026

Years == FirstYear..LastYear

DigitChars == <<"0", "1", "2", "3", "4", "5", "6", "7", "8", "9">>

\* f"{n}" for an int n >= 0
RECURSIVE IntToStr(_)
IntToStr(n) ==
    IF n < 10 THEN <<DigitChars[n + 1]>>
    ELSE IntToStr(n \div 10) \o <<DigitChars[(n % 10) + 1]>>

\* the dict quarters (lines 47-52): quarter -> (start, end) as "MM-DD"
quarters ==
    [q \in 1..4 |->
        CASE q = 1 -> << <<"0", "1", "-", "0", "1">>, <<"0", "4", "-", "0", "1">> >>
          [] q = 2 -> << <<"0", "4", "-", "0", "1">>, <<"0", "7", "-", "0", "1">> >>
          [] q = 3 -> << <<"0", "7", "-", "0", "1">>, <<"1", "0", "-", "0", "1">> >>
          [] q = 4 -> << <<"1", "0", "-", "0", "1">>, <<"0", "1", "-", "0", "1">> >>]

\* line 54 without the roll-over of quarter 4
EndYearMutant(y, q) == y

\* line 54
EndYear(y, q) == IF q = 4 THEN y + 1 ELSE y

get_quarter_dates(y, q) ==
    LET start == IntToStr(y) \o <<"-">> \o quarters[q][1]
        end   == IntToStr(EndYear(y, q)) \o <<"-">> \o quarters[q][2]
    IN  <<start, end>>

InitQuarter ==
    /\ pc = "init_call"
    /\ year \in Years
    /\ quarter \in 1..4
    /\ start_date = <<>>
    /\ end_date = <<>>
    /\ AssignIdle
    /\ EnrichIdle
    /\ RunIdle

\* self.start_date, self.end_date = get_quarter_dates(year, quarter)
Construct ==
    /\ pc = "init_call"
    /\ start_date' = get_quarter_dates(year, quarter)[1]
    /\ end_date' = get_quarter_dates(year, quarter)[2]
    /\ pc' = "init_done"
    /\ UNCHANGED <<api, year, quarter, assignVars, enrichVars, runVars>>

NextQuarter == Construct

SpecQuarter == InitQuarter /\ [][NextQuarter]_vars

(***************************************************************************)
(* The claim about get_quarter_dates, checked under SpecQuarter            *)
(***************************************************************************)
DigitValue(c) == CHOOSE d \in 0..9 : DigitChars[d + 1] = c

RECURSIVE StrToInt(_)
StrToInt(s) ==
    IF s = <<>> THEN 0
    ELSE 10 * StrToInt(SubSeq(s, 1, Len(s) - 1)) + DigitValue(s[Len(s)])

\* the calendar date <<year, month, day>> a 'YYYY-MM-DD' string names
CalendarDate(s) ==
    LET dash == CHOOSE i \in 1..Len(s) : s[i] = "-" /\ \A j \in 1..(i - 1) : s[j] # "-"
    IN  <<StrToInt(SubSeq(s, 1, dash - 1)),
          StrToInt(SubSeq(s, dash + 1, dash + 2)),
          StrToInt(SubSeq(s, dash + 4, dash + 5))>>

DateBefore(a, b) ==
    \/ a[1] < b[1]
    \/ a[1] = b[1] /\ a[2] < b[2]
    \/ a[1] = b[1] /\ a[2] = b[2] /\ a[3] < b[3]

\* C7: the end of a quarter is strictly after its start as a calendar date,
\* and equals the start of the next quarter: of quarter q+1 of the same year
\* for q in 1..3, of quarter 1 of the next year for q = 4.
C7_QuartersTile ==
    pc = "init_done" =>
        /\ DateBefore(CalendarDate(start_date), CalendarDate(end_date))
        /\ quarter \in 1..3 => end_date = get_quarter_dates(year, quarter + 1)[1]
        /\ quarter = 4 => end_date = get_quarter_dates(year + 1, 1)[1]

C7_Witness ==
    /\ pc = "init_done"
    /\ quarter = 4
    /\ CalendarDate(start_date) = <<year, 10, 1>>
    /\ CalendarDate(end_date) = <<year + 1, 1, 1>>

(***************************************************************************)
(* Agenda items as collect_event_items records them (lines 224-262).  The  *)
(* fields that are copied from the API to the CSV and read by no other     *)
(* code (agenda_number, action, tally, mover, ..., the meeting links) are  *)
(* left out.                                                               *)
(***************************************************************************)
MatterDetailFields ==
    {"matter_title", "matter_type_name", "matter_status_name",
     "matter_intro_date", "matter_passed_date", "matter_enactment_date",
     "matter_enactment_number", "matter_requester", "matter_body_name"}

MatterFields == MatterDetailFields \cup {"attachment_links"}

\* x or ''   for a JSON string that may be null
OrEmpty(x) == IF x = None \/ x = Some(<<>>) THEN <<>> ELSE x[1]

\* item_data of lines 224-262 for the API record raw of meeting event_id
ItemData(event_id, raw, meeting_attendance) ==
    [event_id                |-> event_id,
     event_item_id           |-> raw.EventItemId,
     title                   |-> OrEmpty(raw.EventItemTitle),
     passed                  |-> raw.EventItemPassedFlag,
     matter_id               |-> raw.EventItemMatterId,
     matter_file             |-> raw.EventItemMatterFile,
     matter_title            |-> <<>>,
     matter_type_name        |-> <<>>,
     matter_status_name      |-> <<>>,
     matter_intro_date       |-> <<>>,
     matter_passed_date      |-> <<>>,
     matter_enactment_date   |-> <<>>,
     matter_enactment_number |-> <<>>,
     matter_requester        |-> <<>>,
     matter_body_name        |-> <<>>,
     attachment_links        |-> <<>>,
     attendance              |-> meeting_attendance,
     Agenda_item_fulltext    |-> <<>>]

(***************************************************************************)
(* Matter enrichment: enrich_matter_data (lines 292-335)                   *)
(***************************************************************************)
MaxItems == 3
MaxMatters == 2
MaxEnrichCalls == 2
SliceLen == 10

MatterIds == 1..MaxMatters

\* s[:10]
Slice10(s) == SubSeq(s, 1, Min(SliceLen, Len(s)))

\* details.get(key, '') or ''
DetailGet(details, key) == OrEmpty(DictGet(details, key, Some(<<>>)))

\* "if mid:"   (lines 298, 314)
Truthy(mid) == mid # None /\ mid[1] # 0

\* lines 295-299 without the set: one entry per referencing item
RECURSIVE MatterIdsInOrder(_)
MatterIdsInOrder(items) ==
    IF items = <<>> THEN <<>>
    ELSE (IF Truthy(Head(items).matter_id) THEN <<Head(items).matter_id[1]>> ELSE <<>>)
         \o MatterIdsInOrder(Tail(items))

\* lines 295-299: the set unique_matter_ids
RECURSIVE UniqueMatterIds(_)
UniqueMatterIds(items) ==
    IF items = <<>> THEN {}
    ELSE (IF Truthy(Head(items).matter_id) THEN {Head(items).matter_id[1]} ELSE {})
         \cup UniqueMatterIds(Tail(items))

\* sorted(S) for a set S of ints
RECURSIVE SortedInts(_)
SortedInts(S) ==
    IF S = {} THEN <<>>
    ELSE LET least == CHOOSE n \in S : \A m \in S : n <= m
         IN  <<least>> \o SortedInts(S \ {least})

FetchOrderMutant(items) == MatterIdsInOrder(items)

\* the sequence the fetch loop of line 302 walks
FetchOrder(items) == SortedInts(UniqueMatterIds(items))

\* '|'.join(links)
RECURSIVE Join(_)
Join(links) ==
    IF links = <<>> THEN <<>>
    ELSE IF Len(links) = 1 THEN links[1]
    ELSE links[1] \o <<"|">> \o Join(Tail(links))

\* line 332: the hyperlinks of the attachments that have one
RECURSIVE Hyperlinks(_)
Hyperlinks(attachments) ==
    IF attachments = <<>> THEN <<>>
    ELSE LET link == DictGet(Head(attachments), "MatterAttachmentHyperlink", Some(<<>>))
         IN  (IF OrEmpty(link) # <<>> THEN <<link[1]>> ELSE <<>>)
             \o Hyperlinks(Tail(attachments))

\* lines 316-328: the nine detail fields written from a truthy details
WithDetails(it, details) ==
    [it EXCEPT
        !.matter_title            = DetailGet(details, "MatterTitle"),
        !.matter_type_name        = DetailGet(details, "MatterTypeName"),
        !.matter_status_name      = DetailGet(details, "MatterStatusName"),
        !.matter_intro_date       = Slice10(DetailGet(details, "MatterIntroDate")),
        !.matter_passed_date      = Slice10(DetailGet(details, "MatterPassedDate")),
        !.matter_enactment_date   = Slice10(DetailGet(details, "MatterEnactmentDate")),
        !.matter_enactment_number = DetailGet(details, "MatterEnactmentNumber"),
        !.matter_requester        = DetailGet(details, "MatterRequester"),
        !.matter_body_name        = DetailGet(details, "MatterBodyName")]

\* lines 330-333
WithAttachments(it, attachments) ==
    IF attachments # <<>>
    THEN [it EXCEPT !.attachment_links = Join(Hyperlinks(attachments))]
    ELSE it

\* a populate loop that gives up when any matter has no details
PopulateItemMutant(it, cache) ==
    IF Truthy(it.matter_id) /\ it.matter_id[1] \in DOMAIN cache
       /\ \A m \in DOMAIN cache : cache[m].details # None
    THEN LET entry == cache[it.matter_id[1]]
         IN  WithAttachments(WithDetails(it, entry.details[1]), entry.attachments)
    ELSE it

\* a populate loop that fills only the items of the first meeting
PopulateFirstMeetingMutant(it, cache) ==
    IF Truthy(it.matter_id) /\ it.matter_id[1] \in DOMAIN cache /\ it.event_id = 1
    THEN LET entry   == cache[it.matter_id[1]]
             filled  == IF entry.details # None
                        THEN WithDetails(it, entry.details[1])
                        ELSE it
         IN  WithAttachments(filled, entry.attachments)
    ELSE it

\* the body of the loop of line 312 for one item
PopulateItem(it, cache) ==
    IF Truthy(it.matter_id) /\ it.matter_id[1] \in DOMAIN cache
    THEN LET entry   == cache[it.matter_id[1]]
             filled  == IF entry.details # None
                        THEN WithDetails(it, entry.details[1])
                        ELSE it
         IN  WithAttachments(filled, entry.attachments)
    ELSE it

(***************************************************************************)
(* What the API answers for a matter.  A failed request and a null body    *)
(* are the same answer (None, or [] for the attachments).                  *)
(***************************************************************************)
DateTime(mid, rev) ==
    <<"2", "0", "2", DigitChars[mid + 1], "-", "0", DigitChars[rev + 1], "-", "1", "5",
      "T", "0", "0", ":", "0", "0", ":", "0", "0">>

\* a complete record of matter mid
FullDetails(mid, rev) ==
    [k \in {"MatterTitle", "MatterTypeName", "MatterStatusName", "MatterIntroDate",
            "MatterPassedDate", "MatterEnactmentDate", "MatterEnactmentNumber",
            "MatterRequester", "MatterBodyName"} |->
        IF k \in {"MatterIntroDate", "MatterPassedDate", "MatterEnactmentDate"}
        THEN Some(DateTime(mid, rev))
        ELSE Some(<<k, mid, rev>>)]

\* a record of matter mid with null, empty and missing fields
SparseDetails(mid, rev) ==
    [k \in {"MatterTitle", "MatterTypeName", "MatterIntroDate", "MatterPassedDate",
            "MatterRequester"} |->
        CASE k = "MatterTitle"      -> Some(<<k, mid, rev>>)
          [] k = "MatterTypeName"   -> None
          [] k = "MatterIntroDate"  -> Some(Slice10(DateTime(mid, rev)))
          [] k = "MatterPassedDate" -> None
          [] k = "MatterRequester"  -> Some(<<>>)]

Attachments(mid) ==
    << [MatterAttachmentHyperlink |-> Some(<<"link", mid, 1>>)],
       [MatterAttachmentName |-> Some(<<"memo">>)],
       [MatterAttachmentHyperlink |-> None],
       [MatterAttachmentHyperlink |-> Some(<<"link", mid, 2>>)] >>

\* (fetch_matter_details(mid), fetch_matter_attachments(mid)): what the two
\* requests of one turn of the fetch loop can return
MatterAnswers(mid) ==
    {[details |-> None,                         attachments |-> <<>>],
     [details |-> None,                         attachments |-> Attachments(mid)],
     [details |-> Some(FullDetails(mid, 1)),    attachments |-> Attachments(mid)],
     [details |-> Some(SparseDetails(mid, 2)),  attachments |-> <<>>]}

\* the agenda items of the API that differ in what enrichment reads
RawMatterItems ==
    [EventItemId : {0}, EventItemTitle : {Some(<<"Ordinance">>)}, EventItemPassedFlag : {None},
     EventItemMatterId : {None} \cup {Some(m) : m \in MatterIds},
     EventItemMatterFile : {None}]

\* the meeting of the k-th collected item: two items to a meeting
MeetingOf(k) == (k + 1) \div 2

RECURSIVE ItemLists(_)
ItemLists(n) ==
    IF n = 0 THEN {<<>>}
    ELSE LET shorter == ItemLists(n - 1)
         IN  shorter \cup
             {Append(l, DictSet(ItemData(MeetingOf(Len(l) + 1),
                                         [raw EXCEPT !.EventItemId = Len(l) + 1],
                                         EmptyDict),
                                "item_votes", EmptyDict)) :
                 l \in {x \in shorter : Len(x) = n - 1},
                 raw \in RawMatterItems}

EnrichInputs == ItemLists(MaxItems) \ {<<>>}

InitEnrich ==
    /\ pc = "enrich"
    /\ request_log = <<>>
    /\ all_items \in EnrichInputs
    /\ matter_cache = EmptyDict
    /\ enrich_todo = <<>>
    /\ enrich_calls = 0
    /\ AssignIdle
    /\ QuarterIdle
    /\ RunIdle

\* lines 295-300: enrich_matter_data is entered
EnrichBegin ==
    /\ pc = "enrich"
    /\ enrich_todo' = FetchOrder(all_items)
    /\ enrich_calls' = enrich_calls + 1
    /\ pc' = "enrich_fetch"
    /\ UNCHANGED <<api, request_log, all_items, matter_cache, assignVars, quarterVars, runVars>>

\* lines 302-309: one turn of the fetch loop
FetchMatter ==
    /\ pc = "enrich_fetch"
    /\ enrich_todo # <<>>
    /\ LET mid == Head(enrich_todo)
       IN  \E answer \in MatterAnswers(mid) :
               /\ request_log' = request_log \o << <<"matters", mid>>, <<"attachments", mid>> >>
               /\ matter_cache' = DictSet(matter_cache, mid,
                                          [details     |-> answer.details,
                                           attachments |-> answer.attachments])
    /\ enrich_todo' = Tail(enrich_todo)
    /\ UNCHANGED <<pc, api, all_items, enrich_calls, assignVars, quarterVars, runVars>>

\* lines 311-335: the populate loop, after the fetch loop has ended
Populate ==
    /\ pc = "enrich_fetch"
    /\ enrich_todo = <<>>
    /\ all_items' = [i \in 1..Len(all_items) |-> PopulateItem(all_items[i], matter_cache)]
    /\ pc' = "phase2"
    /\ UNCHANGED <<api, request_log, matter_cache, enrich_todo, enrich_calls,
                   assignVars, quarterVars, runVars>>

\* enrich_matter_data is called again on the same items and the same
\* workflow object
ReEnrich ==
    /\ pc = "phase2"
    /\ enrich_calls < MaxEnrichCalls
    /\ pc' = "enrich"
    /\ UNCHANGED <<api, request_log, all_items, matter_cache, enrich_todo, enrich_calls,
                   assignVars, quarterVars, runVars>>

NextEnrich == EnrichBegin \/ FetchMatter \/ Populate \/ ReEnrich

SpecEnrich == InitEnrich /\ [][NextEnrich]_vars

(***************************************************************************)
(* Collection: run (lines 576-584) and collect_event_items (lines 177-290) *)
(*                                                                         *)
(* api is what the API and the web site answer:                            *)
(*   api.persons    the records of /persons                                *)
(*   api.meetings   the records of /events for the quarter                 *)
(*   api.items      EventId -> records of /events/{id}/EventItems          *)
(*   api.rollcalls  EventItemId -> records of /EventItems/{id}/RollCalls   *)
(*   api.votes      EventItemId -> records of /EventItems/{id}/Votes       *)
(*   api.pages      EventId -> LegislationDetail links of the meeting page *)
(*   api.texts      URL -> stripped text of the page's text container      *)
(* A missing key is a request that failed or returned nothing: the fetch_  *)
(* methods turn both into [] (lines 155, 160, 165).  A title is a sequence *)
(* of words.                                                               *)
(***************************************************************************)
\* str.upper() of one word
UpperWord(w) ==
    CASE w = "Roll" -> "ROLL"
      [] w = "Call" -> "CALL"
      [] w = "Regular" -> "REGULAR"
      [] OTHER -> w

\* 'ROLL CALL' in (item.get('EventItemTitle') or '').upper()   (line 202)
IsRollCall(raw) ==
    LET title == OrEmpty(DictGet(raw, "EventItemTitle", None))
    IN  \E i \in 1..(Len(title) - 1) :
            UpperWord(title[i]) = "ROLL" /\ UpperWord(title[i + 1]) = "CALL"

\* title.startswith('REGULAR MEETING NO.') or not title.strip()   (line 218)
IsProceduralHeader(title) ==
    \/ /\ Len(title) >= 3
       /\ title[1] = "REGULAR" /\ title[2] = "MEETING" /\ title[3] = "NO."
    \/ \A i \in 1..Len(title) : title[i] = " "

\* lines 204-209: the dict built from the roll call entries
RECURSIVE BuildAttendance(_, _)
BuildAttendance(roll_calls, acc) ==
    IF roll_calls = <<>> THEN acc
    ELSE BuildAttendance(Tail(roll_calls),
                         DictSet(acc, Head(roll_calls).RollCallPersonName,
                                 Head(roll_calls).RollCallValueName))

\* a first pass without the break: the last ROLL CALL item wins
FirstRollCallMutant(items) ==
    IF \E i \in 1..Len(items) : IsRollCall(items[i])
    THEN CHOOSE i \in 1..Len(items) :
             IsRollCall(items[i]) /\ \A j \in (i + 1)..Len(items) : ~IsRollCall(items[j])
    ELSE 0

\* lines 201-212: the index of the item the attendance is taken from, or 0
FirstRollCall(items) ==
    IF \E i \in 1..Len(items) : IsRollCall(items[i])
    THEN CHOOSE i \in 1..Len(items) :
             IsRollCall(items[i]) /\ \A j \in 1..(i - 1) : ~IsRollCall(items[j])
    ELSE 0

\* line 222 handing every item an empty attendance
MeetingAttendanceMutant(by_meeting, event_id) == EmptyDict

\* self.attendance_by_meeting.get(event_id, {})   (line 222)
MeetingAttendance(by_meeting, event_id) == DictGet(by_meeting, event_id, EmptyDict)

\* lines 215-263: the items the second pass appends
RECURSIVE SecondPass(_, _, _)
SecondPass(event_id, items, by_meeting) ==
    IF items = <<>> THEN <<>>
    ELSE (IF IsProceduralHeader(OrEmpty(DictGet(Head(items), "EventItemTitle", Some(<<>>))))
          THEN <<>>
          ELSE <<ItemData(event_id, Head(items), MeetingAttendance(by_meeting, event_id))>>)
         \o SecondPass(event_id, Tail(items), by_meeting)

\* line 266: the positions in all_items of the items with a vote outcome
RECURSIVE VotedFrom(_, _)
VotedFrom(items, k) ==
    IF k > Len(items) THEN <<>>
    ELSE (IF items[k].passed # None THEN <<k>> ELSE <<>>) \o VotedFrom(items, k + 1)

\* a third pass that queries every item
VotedMutant(items) == [k \in 1..Len(items) |-> k]

Voted(items) == VotedFrom(items, 1)

\* lines 273-279: the dict built from the vote entries
RECURSIVE BuildItemVotes(_, _)
BuildItemVotes(vote_list, acc) ==
    IF vote_list = <<>> THEN acc
    ELSE LET name  == DictGet(Head(vote_list), "VotePersonName", "")
             value == DictGet(Head(vote_list), "VoteValueName", "")
         IN  BuildItemVotes(Tail(vote_list),
                            IF name # "" THEN DictSet(acc, name, value) ELSE acc)

\* the run going on to write the files when there is no meeting
AfterMeetingsMutant(meetings) == IF meetings = <<>> THEN "write" ELSE "collect"

\* lines 580-582: where run goes with the answer of fetch_meetings
AfterMeetings(meetings) == IF meetings = <<>> THEN "done" ELSE "collect"

\* run, lines 576-584: fetch_persons, fetch_meetings, and the early return.
\* The events request may fail: _api_get returns None (lines 118-125) and
\* fetch_meetings turns it into [] (line 151).
RunStart ==
    /\ pc = "start"
    /\ request_log' = request_log \o << <<"persons">>, <<"events">> >>
    /\ \E meetings \in {DictGet(api, "meetings", <<>>), <<>>} :
          /\ pc' = AfterMeetings(meetings)
          /\ meetings_todo' = meetings
    /\ UNCHANGED <<api, all_items, matter_cache, enrich_todo, enrich_calls, configVars,
                   meeting_links, all_members, attendance_by_meeting, voted_todo,
                   files, runs, assignVars, quarterVars>>

\* the subscripts of lines 203-206 raise KeyError on a roll call entry that
\* lacks a key
RollCallRaises(roll_calls) ==
    \E i \in 1..Len(roll_calls) :
        {"RollCallPersonName", "RollCallValueName"} \ DOMAIN roll_calls[i] # {}

\* whether the turn of the loop for the meeting raises: meeting['EventId']
\* (line 183), meeting['EventDate'][:10] (line 184; KeyError, or TypeError on
\* null), item['EventItemId'] of the roll call item (line 203) and of every
\* item the second pass keeps (line 229), and the roll call subscripts.
\* Nothing between the API and main catches these.
MeetingRaises(meeting) ==
    \/ "EventId" \notin DOMAIN meeting
    \/ "EventDate" \notin DOMAIN meeting
    \/ meeting.EventDate = None
    \/ LET items == DictGet(api.items, meeting.EventId, <<>>)
           rc    == FirstRollCall(items)
       IN  \/ /\ rc # 0
              /\ \/ "EventItemId" \notin DOMAIN items[rc]
                 \/ RollCallRaises(DictGet(api.rollcalls, items[rc].EventItemId, <<>>))
           \/ \E i \in 1..Len(items) :
                 /\ ~IsProceduralHeader(OrEmpty(DictGet(items[i], "EventItemTitle",
                                                        Some(<<>>))))
                 /\ "EventItemId" \notin DOMAIN items[i]

\* lines 182-263: one turn of the loop over the meetings; an exception ends
\* the process
CollectMeeting ==
    /\ pc = "collect"
    /\ meetings_todo # <<>>
    /\ IF MeetingRaises(Head(meetings_todo))
       THEN /\ pc' = "crashed"
            /\ UNCHANGED <<request_log, all_items, collectVars>>
       ELSE
       LET meeting    == Head(meetings_todo)
           event_id   == meeting.EventId
           items      == DictGet(api.items, event_id, <<>>)
           rc         == FirstRollCall(items)
           roll_calls == IF rc = 0 THEN <<>>
                         ELSE DictGet(api.rollcalls, items[rc].EventItemId, <<>>)
           attendance == BuildAttendance(roll_calls, EmptyDict)
           by_meeting == IF rc = 0 THEN attendance_by_meeting
                         ELSE DictSet(attendance_by_meeting, event_id, attendance)
           collected  == all_items \o SecondPass(event_id, items, by_meeting)
       IN  /\ meeting_links' =
                  DictSet(meeting_links, event_id,
                          [insite_url |-> OrEmpty(DictGet(meeting, "EventInSiteURL", None))])
           /\ request_log' = request_log \o << <<"EventItems", event_id>> >>
                  \o (IF rc = 0 THEN <<>> ELSE << <<"RollCalls", items[rc].EventItemId>> >>)
           /\ all_members' = all_members \cup DOMAIN attendance
           /\ attendance_by_meeting' = by_meeting
           /\ all_items' = collected
           /\ meetings_todo' = Tail(meetings_todo)
           /\ IF Tail(meetings_todo) = <<>>
              THEN pc' = "votes" /\ voted_todo' = Voted(collected)
              ELSE pc' = "collect" /\ voted_todo' = voted_todo
    /\ UNCHANGED <<api, matter_cache, enrich_todo, enrich_calls, configVars, files, runs,
                   assignVars, quarterVars>>

\* lines 269-282: one turn of the third pass
FetchItemVotes ==
    /\ pc = "votes"
    /\ voted_todo # <<>>
    /\ LET k          == Head(voted_todo)
           vote_list  == DictGet(api.votes, all_items[k].event_item_id, <<>>)
           item_votes == BuildItemVotes(vote_list, EmptyDict)
       IN  /\ request_log' = request_log \o << <<"Votes", all_items[k].event_item_id>> >>
           /\ all_members' = all_members \cup DOMAIN item_votes
           /\ all_items' = [all_items EXCEPT ![k] = DictSet(@, "item_votes", item_votes)]
    /\ voted_todo' = Tail(voted_todo)
    /\ UNCHANGED <<pc, api, matter_cache, enrich_todo, enrich_calls, configVars,
                   meetings_todo, meeting_links, attendance_by_meeting, files, runs,
                   assignVars, quarterVars>>

\* lines 284-290: the items that were not queried get an empty item_votes
FinishCollect ==
    /\ pc = "votes"
    /\ voted_todo = <<>>
    /\ all_items' = [k \in 1..Len(all_items) |->
                        IF "item_votes" \in DOMAIN all_items[k]
                        THEN all_items[k]
                        ELSE DictSet(all_items[k], "item_votes", EmptyDict)]
    /\ pc' = "enrich"
    /\ UNCHANGED <<api, request_log, matter_cache, enrich_todo, enrich_calls, runVars,
                   assignVars, quarterVars>>

(***************************************************************************)
(* Phase 2 and phase 3: scrape_full_text (lines 394-444), the text         *)
(* preservation of run (lines 593-603) with load_existing_text (lines      *)
(* 483-499), and write_output (lines 501-567).                             *)
(*                                                                         *)
(* A CSV file is the list of its data rows, each field holding the string  *)
(* the writer was given: the files are written with newline='' (line 526), *)
(* so the csv module writes a field's characters as they are.  In a full   *)
(* text "CR" and "LF" stand for carriage return and line feed.             *)
(***************************************************************************)
MaxRuns == 2

\* an update that keeps the entries the dict already has
DictUpdateMutant(d, e) ==
    [k \in (DOMAIN d) \cup (DOMAIN e) |-> IF k \in DOMAIN d THEN d[k] ELSE e[k]]

\* dict.update
DictUpdate(d, e) ==
    [k \in (DOMAIN d) \cup (DOMAIN e) |-> IF k \in DOMAIN e THEN e[k] ELSE d[k]]

\* line 397: the positions of the items with a matter file
RECURSIVE WithMatterFile(_, _)
WithMatterFile(items, k) ==
    IF k > Len(items) THEN <<>>
    ELSE (IF OrEmpty(items[k].matter_file) # <<>> THEN <<k>> ELSE <<>>)
         \o WithMatterFile(items, k + 1)

\* scrape_legislation_urls (lines 337-363): fileNumber -> href of one page
RECURSIVE FileToUrl(_, _)
FileToUrl(links, acc) ==
    IF links = <<>> THEN acc
    ELSE FileToUrl(Tail(links),
                   IF Head(links).fileNumber # <<>>
                   THEN DictSet(acc, Head(links).fileNumber, Head(links).href)
                   ELSE acc)

\* lines 408-416: the state of the first loop after the items at positions ks,
\* from st = [urls, processed, visits]
RECURSIVE ScrapePages(_, _, _)
ScrapePages(items, ks, st) ==
    IF ks = <<>> THEN st
    ELSE LET event_id   == items[Head(ks)].event_id
             insite_url == meeting_links[event_id].insite_url
             visit      == event_id \notin st.processed /\ insite_url # <<>>
         IN  ScrapePages(items, Tail(ks),
                 [urls      |-> IF visit
                                THEN DictUpdate(st.urls,
                                         FileToUrl(DictGet(api.pages, event_id, <<>>),
                                                   EmptyDict))
                                ELSE st.urls,
                  processed |-> st.processed \cup {event_id},
                  visits    |-> IF visit
                                THEN Append(st.visits, <<"meeting_page", event_id>>)
                                ELSE st.visits])

\* lines 422-440: the text the second loop leaves on the item at position k
ScrapedText(items, k, urls) ==
    LET legislation_url == DictGet(urls, OrEmpty(items[k].matter_file), <<>>)
        full_text       == IF legislation_url = <<>> THEN None
                           ELSE DictGet(api.texts, legislation_url, None)
    IN  IF OrEmpty(full_text) # <<>> THEN full_text[1]
        ELSE items[k].Agenda_item_fulltext

\* lines 422-440: the detail pages the second loop visits, in order
RECURSIVE DetailVisits(_, _, _)
DetailVisits(items, ks, urls) ==
    IF ks = <<>> THEN <<>>
    ELSE LET legislation_url == DictGet(urls, OrEmpty(items[Head(ks)].matter_file), <<>>)
         IN  (IF legislation_url = <<>> THEN <<>>
              ELSE << <<"legislation_page", legislation_url>> >>)
             \o DetailVisits(items, Tail(ks), urls)

\* run line 591: scrape_full_text
ScrapeFullText ==
    /\ pc = "phase2"
    /\ ~skip_text
    /\ LET ks == WithMatterFile(all_items, 1)
           st == ScrapePages(all_items, ks,
                             [urls |-> EmptyDict, processed |-> {}, visits |-> <<>>])
       IN  /\ all_items' = [k \in 1..Len(all_items) |->
                               IF OrEmpty(all_items[k].matter_file) # <<>>
                               THEN [all_items[k] EXCEPT !.Agenda_item_fulltext =
                                        ScrapedText(all_items, k, st.urls)]
                               ELSE all_items[k]]
           /\ request_log' = request_log \o st.visits \o DetailVisits(all_items, ks, st.urls)
    /\ pc' = "write"
    /\ UNCHANGED <<api, matter_cache, enrich_todo, enrich_calls, runVars,
                   assignVars, quarterVars>>

\* what a text-mode file opened without newline='' (line 489) hands the csv
\* reader for the characters of a field: universal newlines
RECURSIVE UniversalNewlines(_)
UniversalNewlines(text) ==
    IF text = <<>> THEN <<>>
    ELSE IF Head(text) = "CR"
         THEN <<"LF">> \o UniversalNewlines(
                              IF Len(text) >= 2 /\ text[2] = "LF"
                              THEN Tail(Tail(text)) ELSE Tail(text))
         ELSE <<Head(text)>> \o UniversalNewlines(Tail(text))

\* row.get('Agenda_item_fulltext', '') as load_existing_text reads it
ReadText(text) == UniversalNewlines(text)

\* lines 491-495: text_map after the rows
RECURSIVE TextMap(_, _)
TextMap(rows, acc) ==
    IF rows = <<>> THEN acc
    ELSE LET key  == Head(rows).event_item_id
             text == ReadText(Head(rows).Agenda_item_fulltext)
         IN  TextMap(Tail(rows),
                     IF key # "" /\ text # <<>> THEN DictSet(acc, key, text) ELSE acc)

\* str(item['event_item_id'])   (line 599)
Str(n) == ToString(n)

\* lines 596-602
Preserved(it, text_map) ==
    IF DOMAIN text_map # {} /\ Str(it.event_item_id) \in DOMAIN text_map
    THEN [it EXCEPT !.Agenda_item_fulltext = text_map[Str(it.event_item_id)]]
    ELSE it

\* the csv module's limit on the characters of one field, as the reader of
\* line 490 is created
FieldSizeLimit == 131072

\* a text is a sequence of tokens: "HUGE" is a run of more characters than a
\* field may have, every other token is one character
TokenChars(token) == IF token = "HUGE" THEN FieldSizeLimit + 1 ELSE 1

RECURSIVE FieldChars(_)
FieldChars(text) ==
    IF text = <<>> THEN 0 ELSE TokenChars(Head(text)) + FieldChars(Tail(text))

\* the rows the loop of lines 491-495 gets from the reader: the reader raises
\* at the first row with a field over the limit, load_existing_text catches
\* the error (lines 497-498) and returns the entries of the rows before it
RECURSIVE RowsRead(_)
RowsRead(rows) ==
    IF rows = <<>> THEN <<>>
    ELSE IF FieldChars(Head(rows).Agenda_item_fulltext) > FieldSizeLimit THEN <<>>
         ELSE <<Head(rows)>> \o RowsRead(Tail(rows))

\* load_existing_text (lines 483-499)
load_existing_text ==
    IF files.votes = None THEN EmptyDict
    ELSE TextMap(RowsRead(files.votes[1].rows), EmptyDict)

\* run lines 593-603
PreserveText ==
    /\ pc = "phase2"
    /\ skip_text
    /\ LET text_map == load_existing_text
       IN  all_items' = [k \in 1..Len(all_items) |-> Preserved(all_items[k], text_map)]
    /\ pc' = "write"
    /\ UNCHANGED <<api, request_log, matter_cache, enrich_todo, enrich_calls, runVars,
                   assignVars, quarterVars>>

\* what csv.writer writes for a value: '' for None, str(value) otherwise
CsvInt(x) == IF x = None THEN "" ELSE Str(x[1])

\* lines 531-532.  The columns that are copied from the item and read back by
\* nothing (the matter fields, the links) are left out.
Row(it, members) ==
    [event_item_id        |-> Str(it.event_item_id),
     passed               |-> CsvInt(it.passed),
     Agenda_item_fulltext |-> it.Agenda_item_fulltext,
     votes                |-> _assign_votes(it, members)]

\* [i for i in all_items if i['passed'] is not None]   (lines 509, 539)
\* the filter keeping only the items that passed
VotedItemsMutant(items) == SelectSeq(items, LAMBDA it : it.passed = Some(1))

VotedItems(items) == SelectSeq(items, LAMBDA it : it.passed # None)

\* the header written before any member is known
CsvFileMutant(items, members) ==
    Some([header |-> <<>>,
          rows   |-> [k \in 1..Len(items) |-> Row(items[k], members)]])

\* lines 512-533: the header with the member columns, and one row per item
CsvFile(items, members) ==
    Some([header |-> members,
          rows   |-> [k \in 1..Len(items) |-> Row(items[k], members)]])

\* lines 131-137: the names of persons_by_name
RECURSIVE PersonNames(_)
PersonNames(persons) ==
    IF persons = <<>> THEN {}
    ELSE (IF DictGet(Head(persons), "PersonFullName", "") # ""
          THEN {Head(persons).PersonFullName} ELSE {})
         \cup PersonNames(Tail(persons))

\* the calls of _assign_votes a row loop makes (lines 530-533, 545-548)
AssignCalls(items) == [k \in 1..Len(items) |-> <<"assign_votes", items[k].event_item_id>>]

\* the calls noted in front of what the run did before them
LogCallsMutant(log, calls) == calls \o log

\* the calls of a step, in the order the run makes them
LogCalls(log, calls) == log \o calls

\* write_output (lines 501-567)
WriteOutput ==
    /\ pc = "write"
    /\ LET members == sorted(all_members)
           written == IF votes_only THEN VotedItems(all_items) ELSE all_items
       IN  /\ files' = [votes       |-> CsvFile(written, members),
                        voted_items |-> IF votes_only THEN files.voted_items
                                        ELSE CsvFile(VotedItems(written), members),
                        persons     |-> Some(sorted(PersonNames(DictGet(api, "persons", <<>>))))]
           /\ request_log' =
                  LogCalls(request_log,
                           AssignCalls(written)
                           \o (IF votes_only THEN <<>> ELSE AssignCalls(VotedItems(written))))
    /\ pc' = "done"
    /\ UNCHANGED <<api, all_items, matter_cache, enrich_todo, enrich_calls, configVars,
                   collectVars, runs, assignVars, quarterVars>>

\* the program is started again for the same year and quarter: __init__
\* (lines 80-99) with the files of the earlier runs in the output directory
NewRun ==
    /\ pc = "done"
    /\ runs < MaxRuns
    /\ runs' = runs + 1
    /\ skip_text' \in BOOLEAN
    /\ votes_only' \in BOOLEAN
    /\ pc' = "start"
    /\ request_log' = <<>>
    /\ all_items' = <<>>
    /\ matter_cache' = EmptyDict
    /\ enrich_todo' = <<>>
    /\ enrich_calls' = 0
    /\ meetings_todo' = <<>>
    /\ meeting_links' = EmptyDict
    /\ all_members' = {}
    /\ attendance_by_meeting' = EmptyDict
    /\ voted_todo' = <<>>
    /\ UNCHANGED <<api, files, assignVars, quarterVars>>

RunNext ==
    \/ RunStart
    \/ CollectMeeting
    \/ FetchItemVotes
    \/ FinishCollect
    \/ EnrichBegin
    \/ FetchMatter
    \/ Populate
    \/ ScrapeFullText
    \/ PreserveText
    \/ WriteOutput

\* the state a run starts from, for the API and web site world
RunInit(world) ==
    /\ pc = "start"
    /\ api = world
    /\ skip_text \in BOOLEAN
    /\ votes_only \in BOOLEAN
    /\ CollectIdle
    /\ files = NoFiles
    /\ runs = 1
    /\ EnrichIdle
    /\ AssignIdle
    /\ QuarterIdle

(***************************************************************************)
(* The claims about enrich_matter_data, checked under SpecEnrich           *)
(***************************************************************************)
\* how many times request r was issued
RECURSIVE Count(_, _)
Count(log, r) ==
    IF log = <<>> THEN 0
    ELSE (IF Head(log) = r THEN 1 ELSE 0) + Count(Tail(log), r)

\* the items that reference matter m
Referencing(m) == {i \in 1..Len(all_items) : all_items[i].matter_id = Some(m)}

\* C8: when enrich_matter_data runs again on the same items with matter_cache
\* already holding an entry for a matter, no matter field that was written
\* before (title, type name, status name, the three dates, enactment number,
\* requester, body name, attachment links) changes on any item, whatever the
\* API answers on the second run.
C8_ReEnrichKeepsFields ==
    [][enrich_calls >= 2 =>
          \A i \in 1..Len(all_items) : \A f \in MatterFields :
              (Truthy(all_items[i].matter_id) /\ all_items[i][f] # <<>>)
                  => all_items'[i][f] = all_items[i][f]]_vars

\* C9: in one run (one call of enrich_matter_data) the detail request and the
\* attachment request of a matter are each issued exactly once when at least
\* one item references the matter, however many items of however many
\* meetings do, and never otherwise; so an item without a matter id causes no
\* request.
C9_OneFetchPerMatter ==
    enrich_calls <= 1 =>
        \A m \in MatterIds :
            LET wanted == IF Referencing(m) # {} THEN 1 ELSE 0
            IN  /\ Count(request_log, <<"matters", m>>) <= wanted
                /\ Count(request_log, <<"attachments", m>>) <= wanted
                /\ pc = "phase2" =>
                      /\ Count(request_log, <<"matters", m>>) = wanted
                      /\ Count(request_log, <<"attachments", m>>) = wanted

C9_Witness ==
    /\ pc = "phase2"
    /\ enrich_calls = 1
    /\ \E m \in MatterIds :
          /\ \E i, j \in Referencing(m) : all_items[i].event_id # all_items[j].event_id
          /\ Count(request_log, <<"matters", m>>) = 1
    /\ \E i \in 1..Len(all_items) : all_items[i].matter_id = None
    /\ \E m \in MatterIds : Count(request_log, <<"matters", m>>) = 0

(***************************************************************************)
(* The end-to-end scenario of section 8: one meeting with the items A (the *)
(* ROLL CALL item; three members, one of them Absent), B (per-item votes   *)
(* for two of the three members) and C (passed = 1, no per-item votes).    *)
(***************************************************************************)
E2EMembers == {"Adams", "Brown", "Clark"}

E2EVoteValues == {"Affirmative", "Negative", "Absent@vote", "Recused"}

RawItem(id, title, passed, matter_id, matter_file) ==
    [EventItemId |-> id, EventItemTitle |-> title, EventItemPassedFlag |-> passed,
     EventItemMatterId |-> matter_id, EventItemMatterFile |-> matter_file]

Meeting(event_id) ==
    [EventId |-> event_id, EventDate |-> Some(DateTime(3, event_id)),
     EventInSiteURL |-> Some(<<"meeting", event_id>>)]

\* the roll call entries of the members, the member absent being "Absent"
RollCallEntries(members, absent) ==
    [i \in 1..Len(members) |->
        [RollCallPersonName |-> members[i],
         RollCallValueName  |-> IF members[i] = absent THEN "Absent" ELSE "Present"]]

\* the vote entries of the dict recorded
VoteEntries(recorded) ==
    LET names == sorted(DOMAIN recorded)
    IN  [i \in 1..Len(names) |->
            [VotePersonName |-> names[i], VoteValueName |-> recorded[names[i]]]]

E2EWorld(absent, recorded, a_title, a_passed, b_passed) ==
    [persons   |-> <<[PersonFullName |-> "Adams"], [PersonFullName |-> ""]>>,
     meetings  |-> <<Meeting(1)>>,
     items     |-> (1 :> <<RawItem(1, Some(a_title), a_passed, None, None),
                           RawItem(2, Some(<<"Ordinance">>), b_passed, Some(1),
                                   Some(<<"0001-2023">>)),
                           RawItem(3, Some(<<"Consent">>), Some(1), None, Some(<<>>))>>),
     rollcalls |-> (1 :> RollCallEntries(sorted(E2EMembers), absent)),
     votes     |-> (2 :> VoteEntries(recorded)),
     pages     |-> (1 :> <<[fileNumber |-> <<"0001-2023">>, href |-> <<"detail", 1>>]>>),
     texts     |-> (<<"detail", 1>> :> Some(<<"t">>))]

E2EWorlds ==
    {E2EWorld(absent, recorded, a_title, a_passed, b_passed) :
        absent \in E2EMembers,
        recorded \in UNION {[listed -> E2EVoteValues] :
                               listed \in {S \in SUBSET E2EMembers : Cardinality(S) = 2}},
        a_title \in {<<"ROLL", "CALL">>, <<"Roll", "Call">>},
        a_passed \in PassedFlags,
        b_passed \in {Some(0), Some(1)}}

InitE2E == \E world \in E2EWorlds : RunInit(world)

SpecE2E == InitE2E /\ [][RunNext]_vars

(***************************************************************************)
(* The claim about the scenario, checked under SpecE2E                     *)
(***************************************************************************)
Written == pc = "done" /\ files.votes # None

\* the rows of the primary CSV for item id
RowsOf(file, id) == {r \in Range(file[1].rows) : r.event_item_id = Str(id)}

ScenarioAbsent ==
    CHOOSE m \in E2EMembers :
        \E i \in 1..Len(api.rollcalls[1]) :
            /\ api.rollcalls[1][i].RollCallPersonName = m
            /\ api.rollcalls[1][i].RollCallValueName = "Absent"

ScenarioRecorded == BuildItemVotes(api.votes[2], EmptyDict)

\* the consent rule of section 4.5 in the scenario
ConsentColumns(row) ==
    \A m \in E2EMembers :
        row.votes[m] = IF m = ScenarioAbsent THEN "Absent" ELSE "Yes"

BlankColumns(row) == \A m \in E2EMembers : row.votes[m] = ""

\* what the claim says of the rows of B and C
RowsOfBAndC ==
    /\ files.votes[1].header = sorted(E2EMembers)
    /\ RowsOf(files.votes, 2) # {}
    /\ RowsOf(files.votes, 3) # {}
    /\ \A row \in RowsOf(files.votes, 2) : \A m \in E2EMembers :
          row.votes[m] = IF m \in DOMAIN ScenarioRecorded
                         THEN Translate(ScenarioRecorded[m])
                         ELSE IF m = ScenarioAbsent THEN "Absent" ELSE ""
    /\ \A row \in RowsOf(files.votes, 3) : ConsentColumns(row)

\* C6 as stated: in the scenario, B's listed members get their translated
\* recorded values, B's unlisted member gets "Absent" if it is the absent
\* member and blank otherwise, C's absent member gets "Absent" and the other
\* two "Yes", and the row of A, when A is an output row, has blank vote
\* columns: the attendance-based inference does not touch it.
C6_ScenarioAsStated ==
    Written =>
        /\ RowsOfBAndC
        /\ \A row \in RowsOf(files.votes, 1) : BlankColumns(row)

\* C6 as amended: the same for B and C; the row of A has blank vote columns
\* when A's passed flag is 0 or absent, and the columns of the consent rule
\* (Absent for the absent member, Yes for the others) when A's passed flag
\* is 1, A being assigned like any other item.
C6_ScenarioAmended ==
    Written =>
        /\ RowsOfBAndC
        /\ \A row \in RowsOf(files.votes, 1) :
              IF api.items[1][1].EventItemPassedFlag = Some(1)
              THEN ConsentColumns(row)
              ELSE BlankColumns(row)

C6_Witness ==
    /\ Written
    /\ ~votes_only
    /\ api.items[1][1].EventItemPassedFlag = None
    /\ ScenarioAbsent \notin DOMAIN ScenarioRecorded
    /\ \E row \in RowsOf(files.votes, 1) : BlankColumns(row)
    /\ \E row \in RowsOf(files.votes, 2) : row.votes[ScenarioAbsent] = "Absent"
    /\ \E row \in RowsOf(files.votes, 3) : row.votes[ScenarioAbsent] = "Absent"

(***************************************************************************)
(* Runs that follow one another in the same output directory: one meeting  *)
(* whose items differ in outcome, matter file and scraped text.            *)
(***************************************************************************)
MaxTextItems == 2

ScrapedTexts ==
    {None, Some(<<"a">>), Some(<<"a", "CR", "LF", "b">>), Some(<<"HUGE">>)}

\* what the world holds for the k-th item of the meeting
TextItemChoices ==
    [passed : {None, Some(1)}, has_file : BOOLEAN, text : ScrapedTexts]

TextWorld(choices) ==
    LET n == Len(choices)
        filed == {k \in 1..n : choices[k].has_file}
    IN  [persons   |-> <<[PersonFullName |-> "Adams"]>>,
         meetings  |-> <<Meeting(1)>>,
         items     |-> (1 :> [k \in 1..n |->
                                 RawItem(k, Some(<<"Ordinance">>), choices[k].passed,
                                         IF k \in filed THEN Some(1) ELSE None,
                                         IF k \in filed THEN Some(<<"file", k>>) ELSE None)]),
         rollcalls |-> EmptyDict,
         votes     |-> (1 :> VoteEntries([m \in {"Adams"} |-> "Affirmative"])),
         pages     |-> (1 :> [k \in 1..n |-> [fileNumber |-> <<"file", k>>,
                                              href |-> <<"detail", k>>]]),
         texts     |-> [u \in {<<"detail", k>> : k \in 1..n} |-> choices[u[2]].text]]

RECURSIVE ChoiceLists(_)
ChoiceLists(n) ==
    IF n = 0 THEN {<<>>}
    ELSE LET shorter == ChoiceLists(n - 1)
         IN  shorter \cup
             {Append(l, c) : l \in {x \in shorter : Len(x) = n - 1},
                             c \in {x \in TextItemChoices : x.has_file \/ x.text = None}}

NoMeetings ==
    [persons |-> <<>>, meetings |-> <<>>, items |-> EmptyDict, rollcalls |-> EmptyDict,
     votes |-> EmptyDict, pages |-> EmptyDict, texts |-> EmptyDict]

TextWorlds == {TextWorld(l) : l \in ChoiceLists(MaxTextItems) \ {<<>>}} \cup {NoMeetings}

InitText == \E world \in TextWorlds : RunInit(world)

NextText == RunNext \/ NewRun

SpecText == InitText /\ [][NextText]_vars

(***************************************************************************)
(* The claim about text preservation, checked under SpecText               *)
(***************************************************************************)
\* C10: when the primary CSV of an earlier run holds the non-empty full text
\* T in the row of item X, the primary CSV a skip-text run then writes has T
\* as Agenda_item_fulltext in the row of X.
C10_SkipTextKeepsText ==
    [][(pc = "write" /\ pc' = "done" /\ skip_text /\ files.votes # None) =>
          \A old \in Range(files.votes[1].rows) :
              old.Agenda_item_fulltext # <<>> =>
                  \A new \in Range(files'.votes[1].rows) :
                      new.event_item_id = old.event_item_id =>
                          new.Agenda_item_fulltext = old.Agenda_item_fulltext]_vars

(***************************************************************************)
(* The claims about a whole run, checked under SpecE2E                     *)
(***************************************************************************)
\* the positions of the collected items with a passed flag
WithOutcome == {k \in 1..Len(all_items) : all_items[k].passed # None}

\* C11: with votes-only active the primary CSV has exactly as many rows as
\* there are collected items whose passed flag is not absent (passed = 0
\* counted, passed absent not) and the voted-items file is not written; with
\* votes-only inactive the primary CSV has one row per collected item and the
\* voted-items file is written.
C11_VotesOnlyFilter ==
    Written =>
        IF votes_only
        THEN /\ Len(files.votes[1].rows) = Cardinality(WithOutcome)
             /\ \A r \in Range(files.votes[1].rows) :
                   \E k \in WithOutcome : r.event_item_id = Str(all_items[k].event_item_id)
             /\ files.voted_items = None
        ELSE /\ Len(files.votes[1].rows) = Len(all_items)
             /\ files.voted_items # None
             /\ Len(files.voted_items[1].rows) = Cardinality(WithOutcome)

C11_Witness ==
    /\ Written
    /\ votes_only
    /\ files.voted_items = None
    /\ Len(all_items) = 3
    /\ Len(files.votes[1].rows) = 2
    /\ \E k \in WithOutcome : all_items[k].passed = Some(0)
    /\ \E k \in 1..Len(all_items) : all_items[k].passed = None

\* the stage a position of the run belongs to: 1 Collector, 2 Enricher,
\* 3 Scraper (or the text preservation taking its place), 4 Writer, 5 end
StageOf(at) ==
    CASE at \in {"start", "collect", "votes"} -> 1
      [] at \in {"enrich", "enrich_fetch"}    -> 2
      [] at = "phase2"                        -> 3
      [] at = "write"                         -> 4
      [] OTHER                                -> 5

\* the stage a logged call belongs to, vote assignment being at stage va
CallStage(call, va) ==
    CASE call[1] \in {"persons", "events", "EventItems", "RollCalls", "Votes"} -> 10
      [] call[1] \in {"matters", "attachments"}                              -> 20
      [] call[1] \in {"meeting_page", "legislation_page"}                    -> 30
      [] call[1] = "assign_votes"                                            -> va
      [] OTHER                                                               -> 0

\* no call of a stage is logged after a call of a later stage
CallsInStageOrder(va) ==
    \A i \in 1..Len(request_log) : \A j \in i..Len(request_log) :
        CallStage(request_log[i], va) <= CallStage(request_log[j], va)

\* no step of the run goes back to an earlier stage
StagesForward == [][StageOf(pc') >= StageOf(pc)]_vars

\* C12 as stated: the stages run in the order Collector, Enricher, Vote
\* Assignment, Scraper, Writer; every vote assignment is made after the matter
\* enrichment and before the scraping starts, and no stage runs again after a
\* later one has started.
C12_StageOrderAsStated == [](CallsInStageOrder(25)) /\ StagesForward

\* C12 as amended: the stages run in the order Collector, Enricher, Scraper
\* (when not skipped), Writer, and no stage runs again after a later one has
\* started; every vote assignment is made by the Writer, row by row, after
\* the enrichment and after the scraping.
C12_StageOrderAmended == [](CallsInStageOrder(40)) /\ StagesForward

C12_Witness ==
    /\ pc = "done"
    /\ \E i \in 1..Len(request_log) : request_log[i][1] = "matters"
    /\ \E i \in 1..Len(request_log) : request_log[i][1] = "legislation_page"
    /\ \E i \in 1..Len(request_log) : request_log[i][1] = "assign_votes"

(***************************************************************************)
(* Runs over API answers in which one record lacks a field: two meetings,  *)
(* each with a ROLL CALL item and an ordinance that passed.                *)
(***************************************************************************)
\* the dict without the key
Without(d, key) == [k \in DOMAIN d \ {key} |-> d[k]]

BadKinds == {"none", "null_date", "no_date", "no_person_name", "no_item_id"}

BadMeetings == {1, 2}

BadWorld(kind, bad, passed) ==
    LET hit(e, what) == kind = what /\ e = bad
        meeting(e) ==
            IF hit(e, "null_date") THEN [Meeting(e) EXCEPT !.EventDate = None]
            ELSE IF hit(e, "no_date") THEN Without(Meeting(e), "EventDate")
            ELSE Meeting(e)
        ordinance(e) ==
            LET raw == RawItem(10 * e + 2, Some(<<"Ordinance">>), passed, Some(e),
                               Some(<<"file", e>>))
            IN  IF hit(e, "no_item_id") THEN Without(raw, "EventItemId") ELSE raw
        entries(e) ==
            LET rcs == RollCallEntries(<<"Adams", "Brown">>, "Brown")
            IN  IF hit(e, "no_person_name")
                THEN <<Without(rcs[1], "RollCallPersonName"), rcs[2]>>
                ELSE rcs
    IN  [persons   |-> <<[PersonFullName |-> "Adams"]>>,
         meetings  |-> <<meeting(1), meeting(2)>>,
         items     |-> [e \in BadMeetings |->
                           <<RawItem(10 * e + 1, Some(<<"ROLL", "CALL">>), None, None, None),
                             ordinance(e)>>],
         rollcalls |-> [id \in {10 * e + 1 : e \in BadMeetings} |-> entries(id \div 10)],
         votes     |-> (22 :> VoteEntries([m \in {"Adams", "Clark"} |-> "Affirmative"])),
         pages     |-> [e \in BadMeetings |->
                           <<[fileNumber |-> <<"file", e>>, href |-> <<"detail", e>>]>>],
         texts     |-> [u \in {<<"detail", e>> : e \in BadMeetings} |-> Some(<<"t">>)]]

BadWorlds ==
    {BadWorld(kind, bad, passed) :
        kind \in BadKinds, bad \in BadMeetings, passed \in PassedFlags}

InitBad == \E world \in BadWorlds : RunInit(world)

SpecBad == InitBad /\ [][RunNext]_vars

(***************************************************************************)
(* The claim about bad upstream records, checked under SpecBad             *)
(***************************************************************************)
\* the run has ended: no step is left to it
Ended == pc \in {"done", "crashed"}

\* the run ended at line 582, the events request having given no meeting
NoMeetingFound == pc = "done" /\ request_log = << <<"persons">>, <<"events">> >>

\* the ids of the well-formed agenda items the API holds
GoodItemIds ==
    {it.EventItemId : it \in {x \in UNION {Range(api.items[e]) : e \in DOMAIN api.items} :
                                 "EventItemId" \in DOMAIN x}}

\* C13: whatever single record of the API answers lacks a field or holds a
\* null (a meeting with null or missing EventDate, a roll call entry without
\* RollCallPersonName, an agenda item without EventItemId), the run is not
\* aborted: it ends having written the files, with a row for every other
\* agenda item.
C13_BadRecordDoesNotAbort ==
    (Ended /\ ~NoMeetingFound) =>
        /\ pc = "done"
        /\ files.votes # None
        /\ ~votes_only => \A id \in GoodItemIds : RowsOf(files.votes, id) # {}

(***************************************************************************)
(* The claim about a run that finds no meeting, checked under SpecText     *)
(***************************************************************************)
\* C14: when the meetings query yields no meeting (an empty answer or a
\* failed request), the run ends at once and writes no file: the votes CSV,
\* the voted-items CSV and the persons CSV are as the earlier runs left them.
C14_NoMeetingsNoFiles ==
    [][(pc = "start" /\ meetings_todo' = <<>>) => (pc' = "done" /\ files' = files)]_vars

C14_Witness ==
    /\ pc = "done"
    /\ runs >= 2
    /\ request_log = << <<"persons">>, <<"events">> >>
    /\ files.votes # None
    /\ files.persons # None

(***************************************************************************)
(* The claim about the member registry, checked under SpecBad              *)
(***************************************************************************)
\* the list holds the names of the set, each once, in sorted order
IsSortedListOf(list, names) ==
    /\ Len(list) = Cardinality(names)
    /\ Range(list) = names
    /\ \A i \in 1..Len(list) : \A j \in i + 1..Len(list) : Rank(list[i]) < Rank(list[j])

\* C15: no step of a run removes a name from all_members; the sorted column
\* list is computed from it only when every meeting has been collected and
\* every item with an outcome has had its per-item votes fetched, and no name
\* is added once the list is fixed.
C15_RegistryGrowsThenFixed ==
    [][/\ all_members \subseteq all_members'
       /\ pc = "write" =>
             /\ meetings_todo = <<>>
             /\ voted_todo = <<>>
             /\ \A k \in WithOutcome :
                   Count(request_log, <<"Votes", all_items[k].event_item_id>>) >= 1
       /\ (pc = "write" /\ pc' = "done") =>
             /\ IsSortedListOf(files'.votes[1].header, all_members)
             /\ all_members' = all_members]_vars

C15_Witness ==
    /\ Written
    /\ files.votes[1].header = <<"Adams", "Brown", "Clark">>
    /\ \A e \in DOMAIN attendance_by_meeting : "Clark" \notin DOMAIN attendance_by_meeting[e]
    /\ Cardinality(DOMAIN attendance_by_meeting) = 2

(***************************************************************************)
(* Runs over meetings with none, one or several ROLL CALL items: meeting 1 *)
(* has three items, each a ROLL CALL item (in either case) or an ordinance,*)
(* meeting 2 has one ordinance; a RollCalls request is answered or not.    *)
(***************************************************************************)
RollTitles == {<<"ROLL", "CALL">>, <<"Roll", "Call">>}

ItemTitles == RollTitles \cup {<<"Ordinance">>}

RollItemIds == {11, 12, 13}

\* the one member the roll call of the item names, and that member's status
RollAnswer(id) ==
    CASE id = 11 -> RollCallEntries(<<"Adams">>, "Brown")
      [] id = 12 -> RollCallEntries(<<"Brown">>, "Brown")
      [] OTHER   -> RollCallEntries(<<"Clark">>, "Brown")

RollWorld(titles, answered) ==
    [persons   |-> <<[PersonFullName |-> "Adams"]>>,
     meetings  |-> <<Meeting(1), Meeting(2)>>,
     items     |-> [e \in {1, 2} |->
                       IF e = 2
                       THEN <<RawItem(21, Some(<<"Ordinance">>), Some(1), Some(2),
                                      Some(<<"file", 2>>))>>
                       ELSE [i \in 1..3 |->
                                IF titles[i] \in RollTitles
                                THEN RawItem(10 + i, Some(titles[i]), None, None, None)
                                ELSE RawItem(10 + i, Some(titles[i]), Some(1), Some(1),
                                             Some(<<"file", 1>>))]],
     rollcalls |-> [id \in answered |-> RollAnswer(id)],
     votes     |-> EmptyDict,
     pages     |-> [e \in {1, 2} |->
                       <<[fileNumber |-> <<"file", e>>, href |-> <<"detail", e>>]>>],
     texts     |-> [u \in {<<"detail", e>> : e \in {1, 2}} |-> Some(<<"t">>)]]

RollWorlds ==
    {RollWorld(titles, answered) :
        titles \in [1..3 -> ItemTitles], answered \in SUBSET RollItemIds}

InitRoll == \E world \in RollWorlds : RunInit(world)

SpecRoll == InitRoll /\ [][RunNext]_vars

(***************************************************************************)
(* The claim about the attendance source, checked under SpecRoll           *)
(***************************************************************************)
\* the meeting's agenda items have been fetched
Collected(e) == Count(request_log, <<"EventItems", e>>) > 0

\* the positions of the meeting's items whose title contains ROLL CALL
RollCallItemsOf(e) ==
    {i \in 1..Len(api.items[e]) : OrEmpty(api.items[e][i].EventItemTitle) \in RollTitles}

\* the attendance the meeting's items are to carry
AttendanceOf(e, expected) ==
    \A k \in 1..Len(all_items) :
        all_items[k].event_id = e => all_items[k].attendance = expected

\* C17: the attendance of a meeting is taken from the first agenda item, in
\* fetched order, whose title contains ROLL CALL in any case, and from no
\* other item: one RollCalls request is issued for that item and none for any
\* other item of the meeting, the mapping is what that request returned (empty
\* when it returned nothing, later ROLL CALL items notwithstanding), and the
\* items of a meeting without such an item carry empty attendance.
C17_FirstRollCallOnly ==
    \A e \in DOMAIN api.items :
        Collected(e) =>
            LET rcs == RollCallItemsOf(e)
                ids == {api.items[e][i].EventItemId : i \in 1..Len(api.items[e])}
            IN  IF rcs = {}
                THEN /\ \A id \in ids : Count(request_log, <<"RollCalls", id>>) = 0
                     /\ e \notin DOMAIN attendance_by_meeting
                     /\ AttendanceOf(e, EmptyDict)
                ELSE LET first    == api.items[e][CHOOSE i \in rcs : \A j \in rcs : i <= j]
                                         .EventItemId
                         expected == BuildAttendance(DictGet(api.rollcalls, first, <<>>),
                                                     EmptyDict)
                     IN  /\ \A id \in ids :
                               Count(request_log, <<"RollCalls", id>>)
                                   = IF id = first THEN 1 ELSE 0
                         /\ attendance_by_meeting[e] = expected
                         /\ AttendanceOf(e, expected)

C17_Witness ==
    /\ pc = "done"
    /\ OrEmpty(api.items[1][1].EventItemTitle) = <<"Roll", "Call">>
    /\ OrEmpty(api.items[1][3].EventItemTitle) = <<"ROLL", "CALL">>
    /\ 11 \notin DOMAIN api.rollcalls
    /\ 13 \in DOMAIN api.rollcalls
    /\ 1 \in DOMAIN attendance_by_meeting
    /\ attendance_by_meeting[1] = EmptyDict
    /\ all_members = {}
    /\ Count(request_log, <<"RollCalls", 11>>) = 1

(***************************************************************************)
(* The claim about the per-item votes pass, checked under SpecBad          *)
(***************************************************************************)
\* collect_event_items has returned
CollectionOver == pc \in {"enrich", "enrich_fetch", "phase2", "write"} \/ Written

\* C18: a Votes request is issued only when the agenda items of every
\* meeting have been collected, once for each collected item whose passed
\* flag is not absent and never for an item whose passed flag is absent; when
\* collection is over, every item with an absent passed flag has an empty
\* per-item vote mapping.
C18_VotesAfterCollection ==
    /\ \A i \in 1..Len(request_log) :
          request_log[i][1] = "Votes" =>
              /\ meetings_todo = <<>>
              /\ \A j \in i..Len(request_log) :
                    request_log[j][1] \notin {"EventItems", "RollCalls"}
    /\ \A k \in 1..Len(all_items) :
          LET asked == Count(request_log, <<"Votes", all_items[k].event_item_id>>)
          IN  IF all_items[k].passed = None
              THEN /\ asked = 0
                   /\ CollectionOver => all_items[k].item_votes = EmptyDict
              ELSE /\ asked <= 1
                   /\ CollectionOver => asked = 1

C18_Witness ==
    /\ pc = "enrich"
    /\ Len(all_items) = 4
    /\ Cardinality(WithOutcome) = 2
    /\ \E k \in WithOutcome : all_items[k].passed = Some(0)
    /\ \E k \in WithOutcome : all_items[k].item_votes # EmptyDict
    /\ Count(request_log, <<"EventItems", 2>>) = 1

(***************************************************************************)
(* The claim about a failed matter fetch, checked under SpecRoll           *)
(***************************************************************************)
\* enrich_matter_data has returned
Enriched == pc \in {"phase2", "write"} \/ Written

\* the key of the matter record an item field is taken from
DetailKey(f) ==
    CASE f = "matter_title"            -> "MatterTitle"
      [] f = "matter_type_name"        -> "MatterTypeName"
      [] f = "matter_status_name"      -> "MatterStatusName"
      [] f = "matter_intro_date"       -> "MatterIntroDate"
      [] f = "matter_passed_date"      -> "MatterPassedDate"
      [] f = "matter_enactment_date"   -> "MatterEnactmentDate"
      [] f = "matter_enactment_number" -> "MatterEnactmentNumber"
      [] OTHER -> IF f = "matter_requester" THEN "MatterRequester" ELSE "MatterBodyName"

\* the value of field f that the record of the item's own matter stands for
DetailValue(details, f) ==
    LET key == DetailKey(f)
        raw == IF key \in DOMAIN details /\ details[key] # None THEN details[key][1]
               ELSE <<>>
    IN  IF f \in {"matter_intro_date", "matter_passed_date", "matter_enactment_date"}
        THEN [i \in 1..(IF Len(raw) < 10 THEN Len(raw) ELSE 10) |-> raw[i]]
        ELSE raw

\* C19: when the detail request of matter M returns nothing, every item that
\* references M has its nine matter-detail fields empty; and the fields of
\* an item referencing a matter whose request succeeded are determined by
\* that matter's own record alone, whatever the requests of the other
\* matters returned.
C19_FailedMatterIsolated ==
    Enriched =>
        \A k \in 1..Len(all_items) :
            Truthy(all_items[k].matter_id) =>
                LET details == matter_cache[all_items[k].matter_id[1]].details
                IN  \A f \in MatterDetailFields :
                        all_items[k][f] = IF details = None THEN <<>>
                                          ELSE DetailValue(details[1], f)

C19_Witness ==
    /\ Enriched
    /\ DOMAIN matter_cache = {1, 2}
    /\ matter_cache[1].details = None
    /\ matter_cache[2].details = Some(FullDetails(2, 1))
    /\ Cardinality(Referencing(1)) >= 2
    /\ \A k \in Referencing(1) : \A f \in MatterDetailFields : all_items[k][f] = <<>>
    /\ \E k \in Referencing(2) :
          /\ all_items[k].matter_title = <<"MatterTitle", 2, 1>>
          /\ Len(all_items[k].matter_intro_date) = 10

(***************************************************************************)
(* The claim about an empty per-item vote result, checked under SpecBad    *)
(***************************************************************************)
\* the positions of the items with a passed flag in flags whose Votes request
\* gave no vote
EmptyVoteResult(flags) ==
    {k \in 1..Len(all_items) :
        all_items[k].passed \in flags /\ all_items[k].item_votes = EmptyDict}

\* the row of the item at position k holds the consent/voice values
ConsentRow(k) ==
    \A r \in RowsOf(files.votes, all_items[k].event_item_id) : \A m \in all_members :
        r.votes[m] = IF DictGet(all_items[k].attendance, m, "") \in {"Absent", "Absent@vote"}
                     THEN "Absent" ELSE "Yes"

\* C20 as stated: every item with a passed flag, passed or failed, whose
\* per-item vote result is empty (no votes returned, or the request failed)
\* is assigned votes by the consent/voice rule: Absent for a member absent at
\* roll call, Yes for every other member.
C20_EmptyResultIsConsentAsStated ==
    Written => \A k \in EmptyVoteResult({Some(0), Some(1)}) : ConsentRow(k)

\* C20 as amended: an item that passed (passed = 1) with an empty per-item
\* vote result is assigned votes by the consent/voice rule; an item that
\* failed (passed = 0) with an empty per-item vote result has every member
\* column blank.
C20_EmptyResultIsConsentAmended ==
    Written =>
        /\ \A k \in EmptyVoteResult({Some(1)}) : ConsentRow(k)
        /\ \A k \in EmptyVoteResult({Some(0)}) :
              \A r \in RowsOf(files.votes, all_items[k].event_item_id) :
                  \A m \in all_members : r.votes[m] = ""

C20_Witness ==
    /\ Written
    /\ \E k \in EmptyVoteResult({Some(1)}) :
          /\ all_items[k].event_item_id \notin DOMAIN api.votes
          /\ \E r \in RowsOf(files.votes, all_items[k].event_item_id) :
                r.votes = [m \in {"Adams", "Brown", "Clark"} |->
                              IF m = "Brown" THEN "Absent" ELSE "Yes"]

(***************************************************************************)
(* Runs over meeting pages that list the same file number: meeting 1 has   *)
(* two items with a matter file, meeting 2 has one; each meeting page      *)
(* lists some of the file numbers, each with a link of its own.            *)
(***************************************************************************)
FileNumbers == {"A", "B"}

\* the link of file number f on the page of meeting e
PageLink(e, f) == [fileNumber |-> <<f>>, href |-> <<"detail", e, f>>]

\* the lists of links a meeting page can hold
PageLists(e) ==
    {<<>>, <<PageLink(e, "A")>>, <<PageLink(e, "B")>>,
     <<PageLink(e, "A"), PageLink(e, "B")>>}

PagesWorld(f1, f2, page1, page2, site2) ==
    [persons   |-> <<[PersonFullName |-> "Adams"]>>,
     meetings  |-> <<Meeting(1), [Meeting(2) EXCEPT !.EventInSiteURL = site2]>>,
     items     |-> [e \in {1, 2} |->
                       IF e = 1
                       THEN <<RawItem(11, Some(<<"Ordinance">>), Some(1), Some(1),
                                      Some(<<f1>>)),
                              RawItem(12, Some(<<"Ordinance">>), None, None, Some(<<"C">>))>>
                       ELSE <<RawItem(21, Some(<<"Ordinance">>), None, None,
                                      Some(<<f2>>))>>],
     rollcalls |-> EmptyDict,
     votes     |-> EmptyDict,
     pages     |-> [e \in {1, 2} |-> IF e = 1 THEN page1 ELSE page2],
     texts     |-> [u \in {<<"detail", e, f>> : e \in {1, 2}, f \in FileNumbers} |->
                       Some(<<"text", u[2], u[3]>>)]]

PagesWorlds ==
    {PagesWorld(f1, f2, page1, page2, site2) :
        f1 \in FileNumbers, f2 \in FileNumbers,
        page1 \in PageLists(1), page2 \in PageLists(2),
        site2 \in {None, Some(<<"meeting", 2>>)}}

InitPages == \E world \in PagesWorlds : RunInit(world)

SpecPages == InitPages /\ [][RunNext]_vars

(***************************************************************************)
(* The claim about the scraping phase, checked under SpecPages             *)
(***************************************************************************)
\* scrape_full_text has returned
Scraped == ~skip_text /\ (pc = "write" \/ Written)

\* where in the log the visit of the page of meeting e is, 0 when not visited
VisitOf(e) ==
    IF \E i \in 1..Len(request_log) : request_log[i] = <<"meeting_page", e>>
    THEN CHOOSE i \in 1..Len(request_log) : request_log[i] = <<"meeting_page", e>>
    ELSE 0

\* the visited meeting pages that list the file number
VisitedPagesWith(file) ==
    {e \in DOMAIN api.pages :
        /\ VisitOf(e) # 0
        /\ \E i \in 1..Len(api.pages[e]) : api.pages[e][i].fileNumber = file}

\* C21: every meeting page is visited at most once and before any
\* legislation detail page; an item whose file number is on several visited
\* meeting pages (also an item of an earlier meeting) gets the text of the
\* link on the page visited last, and an item whose file number is on no
\* visited page causes no detail visit and keeps an empty full text.
C21_UrlsAccumulatedFirst ==
    /\ \A i \in 1..Len(request_log) : \A j \in i..Len(request_log) :
          ~(request_log[i][1] = "legislation_page" /\ request_log[j][1] = "meeting_page")
    /\ \A e \in DOMAIN api.pages : Count(request_log, <<"meeting_page", e>>) <= 1
    /\ Scraped =>
          \A k \in 1..Len(all_items) :
              LET file == OrEmpty(all_items[k].matter_file)
                  on   == VisitedPagesWith(file)
              IN  file # <<>> =>
                      IF on = {}
                      THEN all_items[k].Agenda_item_fulltext = <<>>
                      ELSE LET last == CHOOSE e \in on :
                                           \A o \in on : VisitOf(o) <= VisitOf(e)
                           IN  /\ all_items[k].Agenda_item_fulltext
                                     = <<"text", last, file[1]>>
                               /\ Count(request_log,
                                        <<"legislation_page", <<"detail", last, file[1]>> >>)
                                     >= 1

C21_Witness ==
    /\ Scraped
    /\ Len(all_items) = 3
    /\ VisitedPagesWith(<<"A">>) = {1, 2}
    /\ all_items[1].matter_file = Some(<<"A">>)
    /\ all_items[1].Agenda_item_fulltext = <<"text", 2, "A">>
    /\ all_items[3].Agenda_item_fulltext = <<"text", 2, "A">>
    /\ all_items[2].Agenda_item_fulltext = <<>>

(***************************************************************************)
(* The claim about the member columns, checked under SpecBad               *)
(***************************************************************************)
\* the member names the collected items hold a value for
NamesWithValue ==
    UNION {DOMAIN all_items[k].attendance \cup DOMAIN all_items[k].item_votes :
              k \in 1..Len(all_items)}

\* C22: when the files are written, every member name that is a key of the
\* attendance mapping or of the per-item vote mapping of a collected item is
\* in the member list, so it is a column of the header and of every row.
C22_EveryNameHasColumn ==
    /\ pc = "write" => NamesWithValue \subseteq all_members
    /\ Written =>
          /\ NamesWithValue \subseteq Range(files.votes[1].header)
          /\ \A r \in Range(files.votes[1].rows) : NamesWithValue \subseteq DOMAIN r.votes

C22_Witness ==
    /\ Written
    /\ \E k \in 1..Len(all_items) : "Clark" \in DOMAIN all_items[k].item_votes
    /\ \A k \in 1..Len(all_items) : "Clark" \notin DOMAIN all_items[k].attendance
    /\ \E k \in 1..Len(all_items) :
          /\ "Brown" \in DOMAIN all_items[k].attendance
          /\ \A j \in 1..Len(all_items) : "Brown" \notin DOMAIN all_items[j].item_votes
    /\ {"Brown", "Clark"} \subseteq Range(files.votes[1].header)
    /\ Len(files.votes[1].rows) >= 2

(***************************************************************************)
(* The claim about items sharing a matter, checked under SpecEnrich        *)
(***************************************************************************)
\* C23: when enrich_matter_data has returned, any two items that reference
\* the same matter id, of the same meeting or of different meetings, hold
\* the same values in the nine matter-detail fields and in attachment_links.
C23_SameMatterSameFields ==
    pc = "phase2" =>
        \A m \in MatterIds : \A i \in Referencing(m) : \A j \in Referencing(m) :
            \A f \in MatterFields : all_items[i][f] = all_items[j][f]

C23_Witness ==
    /\ pc = "phase2"
    /\ \E m \in MatterIds : \E i \in Referencing(m) : \E j \in Referencing(m) :
          /\ all_items[i].event_id # all_items[j].event_id
          /\ all_items[i].matter_title # <<>>
          /\ all_items[i].attachment_links # <<>>
          /\ all_items[j].matter_title = all_items[i].matter_title
          /\ all_items[j].attachment_links = all_items[i].attachment_links
    /\ \E m \in MatterIds : \E i \in Referencing(m) : \E j \in Referencing(m) :
          i # j /\ all_items[i].event_id = all_items[j].event_id

(***************************************************************************)
(* The claim about sequences of skip-text runs, checked under SpecText     *)
(***************************************************************************)
\* the item with the id of the row is collected in the current run
CollectedNow(r) ==
    \E k \in 1..Len(all_items) : Str(all_items[k].event_item_id) = r.event_item_id

\* C24: over a sequence of skip-text runs in any mix of votes-only and
\* normal mode, an item X that is collected every time and for which the
\* primary CSV held a non-empty full text T before the first of them still
\* has T in the primary CSV the last of them writes.  Stated for each run of
\* the sequence: the primary CSV a skip-text run writes has a row for every
\* collected item that had a non-empty text in the CSV it found, with that
\* text.
C24_TextSurvivesSkipTextRuns ==
    [][(pc = "write" /\ pc' = "done" /\ skip_text /\ files.votes # None) =>
          \A old \in Range(files.votes[1].rows) :
              (old.Agenda_item_fulltext # <<>> /\ CollectedNow(old)) =>
                  \E new \in Range(files'.votes[1].rows) :
                      /\ new.event_item_id = old.event_item_id
                      /\ new.Agenda_item_fulltext = old.Agenda_item_fulltext]_vars

=============================================================================
